---- MODULE Spec2Model ----
(***************************************************************************)
(* Model of src/src/Kitsune.js: the KitsuneParser type registry (addType,  *)
(* findType, removeType) and KitsuneParser.parse.                          *)
(*                                                                         *)
(* JavaScript values are records [k, s, n, a]: k is the kind ("string",    *)
(* "number", "NaN", "undefined", "array"), s the characters of a string,   *)
(* n the integer of a number, a the elements of an array.  Indices and the *)
(* cursor usageIndex are 0-based as in the source; sequences are 1-based.  *)
(***************************************************************************)
EXTENDS Integers, Sequences, FiniteSets, TLC

VARIABLES types, args, usage, out

vars == <<types, args, usage, out>>

(***************************************************************************)
(* Bounds of the model.                                                    *)
(***************************************************************************)
MaxArgs == 3
MaxSlots == 2
MaxCount == 2

\* F applied to the value of e: e is evaluated once, as an assignment to a
\* const does.
With(e, F(_)) == CHOOSE r \in {F(v) : v \in {e}} : TRUE

(***************************************************************************)
(* JavaScript values.                                                      *)
(***************************************************************************)
Undefined == [k |-> "undefined", s |-> <<>>, n |-> 0, a |-> <<>>]
NaNV == [k |-> "NaN", s |-> <<>>, n |-> 0, a |-> <<>>]
StrV(chars) == [k |-> "string", s |-> chars, n |-> 0, a |-> <<>>]
NumV(i) == [k |-> "number", s |-> <<>>, n |-> i, a |-> <<>>]
ArrV(elems) == [k |-> "array", s |-> <<>>, n |-> 0, a |-> elems]

Digits == {"0", "1", "2", "3", "4", "5", "6", "7", "8", "9"}

DigitVal(c) ==
  CASE c = "0" -> 0 [] c = "1" -> 1 [] c = "2" -> 2 [] c = "3" -> 3
    [] c = "4" -> 4 [] c = "5" -> 5 [] c = "6" -> 6 [] c = "7" -> 7
    [] c = "8" -> 8 [] c = "9" -> 9

\* Number(str) is a number (not NaN) for the decimal literals digits[.digits]
\* and for the empty string; signs, exponents and blanks are outside the
\* token alphabet of the model.
IsNumericString(chars) ==
  \/ chars = <<>>
  \/ /\ \A i \in 1..Len(chars) : chars[i] \in Digits \cup {"."}
     /\ Cardinality({i \in 1..Len(chars) : chars[i] = "."}) <= 1
     /\ \E i \in 1..Len(chars) : chars[i] \in Digits

\* isNaN(val): ToNumber(val) is NaN.  A check is applied to a token or to
\* undefined, never to an array.
IsNaN(val) ==
  CASE val.k = "string" -> ~IsNumericString(val.s)
    [] val.k = "number" -> FALSE
    [] val.k = "NaN" -> TRUE
    [] val.k = "undefined" -> TRUE

\* The number of leading decimal digits of a string.
RECURSIVE LeadingDigits(_, _)
LeadingDigits(chars, i) ==
  IF i <= Len(chars) /\ chars[i] \in Digits THEN LeadingDigits(chars, i + 1) ELSE i - 1

RECURSIVE DigitsToInt(_, _, _)
DigitsToInt(chars, i, acc) ==
  IF i = 0 THEN acc
  ELSE DigitsToInt(Tail(chars), i - 1, acc * 10 + DigitVal(Head(chars)))

\* parseInt(val): the integer of the leading digits of String(val), else NaN.
ParseInt(val) ==
  CASE val.k = "string" ->
         IF LeadingDigits(val.s, 1) = 0 THEN NaNV
         ELSE NumV(DigitsToInt(val.s, LeadingDigits(val.s, 1), 0))
    [] val.k = "number" -> val
    [] OTHER -> NaNV

\* String(val): a string is unchanged.
ToStringV(val) ==
  CASE val.k = "string" -> val
    [] val.k = "undefined" -> StrV(<<"u", "n", "d", "e", "f", "i", "n", "e", "d">>)
    [] val.k = "NaN" -> StrV(<<"N", "a", "N">>)

(***************************************************************************)
(* The built-in check and exec functions (constructor, lines 75-88).  A    *)
(* descriptor names its functions; custom types reuse the same functions.  *)
(***************************************************************************)
StringCheck(val) == val.k = "string"

NumberCheck(val) == ~IsNaN(val) \/ val.k \in {"number", "NaN"}

ApplyCheck(fn, val) ==
  CASE fn = "isString" -> StringCheck(val)
    [] fn = "isNumber" -> NumberCheck(val)

ApplyExec(fn, val) ==
  CASE fn = "String" -> ToStringV(val)
    [] fn = "parseInt" -> ParseInt(val)

(***************************************************************************)
(* The registry: this.types, a Collection (Map) from key to descriptor.    *)
(***************************************************************************)
Names == {"string", "number", "word"}

NoType == [defined |-> FALSE, name |-> "", check |-> "", exec |-> ""]

\* new KitsuneParserType({name, info, exec, check}); info has no effect.
KitsuneParserType(name, check, exec) ==
  [defined |-> TRUE, name |-> name, check |-> check, exec |-> exec]

\* The registry the constructor builds.
BuiltinTypes ==
  [key \in {"string", "number"} |->
     IF key = "string" THEN KitsuneParserType("string", "isString", "String")
     ELSE KitsuneParserType("number", "isNumber", "parseInt")]

\* A value passed as a Map key: kind is "string", "object" (here a
\* descriptor) or "undefined".  This is the key a looked up descriptor makes.
ObjectKey(d) ==
  IF d.defined THEN [kind |-> "object", str |-> "", obj |-> d]
  ELSE [kind |-> "undefined", str |-> "", obj |-> NoType]

\* Map.prototype.set(key, value) with a string key.
MapSet(m, name, d) == [key \in DOMAIN m \cup {name} |-> IF key = name THEN d ELSE m[key]]

\* Map.prototype.delete(key): removes the entry whose key is the same value
\* as key.  Every key of the registry is a string.
MapDelete(m, key) ==
  IF key.kind = "string" /\ key.str \in DOMAIN m
  THEN [k \in DOMAIN m \ {key.str} |-> m[k]]
  ELSE m

\* findType(type): the descriptor stored under the key, else undefined.
findType(m, type) == IF type \in DOMAIN m THEN m[type] ELSE NoType

\* removeType(type): looks the descriptor up and passes it to delete.
removeType(m, type) == MapDelete(m, ObjectKey(findType(m, type)))

\* addType: rejected when name, exec or check is missing (falsy).
addTypeRejects(name, check, exec) == name = "" \/ exec = "" \/ check = ""

addType(m, name, check, exec) ==
  IF addTypeRejects(name, check, exec) THEN m
  ELSE MapSet(m, name, KitsuneParserType(name, check, exec))

(***************************************************************************)
(* Errors and slot types.                                                  *)
(***************************************************************************)
NoTypeSpec == [union |-> FALSE, names |-> <<>>]
Single(name) == [union |-> FALSE, names |-> <<name>>]
Union(names) == [union |-> TRUE, names |-> names]

NoError == [class |-> "", value |-> Undefined, index |-> -1, type |-> NoTypeSpec, message |-> ""]

\* new KitsuneParserArgumentError(value, index, type, message)
KitsuneParserArgumentError(value, index, type, message) ==
  [class |-> "KitsuneParserArgumentError", value |-> value, index |-> index,
   type |-> type, message |-> message]

\* new KitsuneParserMessageError(message)
KitsuneParserMessageError(message) ==
  [class |-> "KitsuneParserMessageError", value |-> Undefined, index |-> -1,
   type |-> NoTypeSpec, message |-> message]

\* The TypeError of reading a property of undefined.
TypeError ==
  [class |-> "TypeError", value |-> Undefined, index |-> -1, type |-> NoTypeSpec,
   message |-> "Cannot read properties of undefined"]

MsgOnlyOne == "Non-required argument must be only one."
MsgAtEnd == "Non-required argument must be at the end of the arguments array."
MsgCount == "Passed arguments count is not equal to type count."
MsgNotArray == "Parser arguments must be an array."

(***************************************************************************)
(* parseType (lines 118-122).                                              *)
(***************************************************************************)
\* The outcome of one parseType call: threw (TypeError), or the object
\* { value } (check "undefined") or { check } (check "false").
parseTypeWith(type, val) ==
  IF ~type.defined THEN [threw |-> TRUE, check |-> "undefined", value |-> Undefined]
  ELSE IF ApplyCheck(type.check, val)
       THEN [threw |-> FALSE, check |-> "undefined", value |-> ApplyExec(type.exec, val)]
       ELSE [threw |-> FALSE, check |-> "false", value |-> Undefined]

parseType(m, typeName, val) == With(findType(m, typeName), LAMBDA type : parseTypeWith(type, val))

\* One entry of the log of parseType calls.
Call(typeName, val) == [type |-> typeName, val |-> val]

(***************************************************************************)
(* parse (lines 124-210).                                                  *)
(***************************************************************************)
Min(x, y) == IF x < y THEN x ELSE y

\* Array.prototype.slice(from, to) with 0 <= from <= to.
Slice(a, from, to) ==
  LET end == Min(to, Len(a)) IN
  IF end <= from THEN <<>> ELSE [i \in 1..(end - from) |-> a[from + i]]

\* a[index] of an array: undefined past the end.
At(a, index) == IF index < Len(a) THEN a[index + 1] ELSE Undefined

\* Line 154: count ? args.slice(usageIndex, usageIndex + count) : args[usageIndex]
argToParse(a, usageIndex, count) ==
  IF count # 0 THEN ArrV(Slice(a, usageIndex, usageIndex + count)) ELSE At(a, usageIndex)

\* The property read arg.required on a token (line 137): the tokens are
\* primitive strings, which have no such property, so the read is undefined
\* whatever the schema says.
PropRequired(token) == "undefined"

\* Line 137: args.map(arg => arg.required), over the TOKENS.
requiredArray(a) == [i \in 1..Len(a) |-> PropRequired(a[i])]

\* Line 139: requiredArray.filter(val => val === false).length
len(ra) == Cardinality({i \in 1..Len(ra) : ra[i] = "false"})

\* Lines 10-16 and 140: findLastIndex(requiredArray, val => val === false)
findLastIndex(ra) ==
  LET hits == {i \in 1..Len(ra) : ra[i] = "false"} IN
  IF hits = {} THEN -1 ELSE (CHOOSE i \in hits : \A j \in hits : j <= i) - 1

\* Lines 158-162 and 169-173: one type applied to the window.  For an array
\* window parseType is mapped over the tokens; a throw ends the map.
resolveWith(m, typeName, window) ==
  IF window.k # "array"
  THEN With(parseType(m, typeName, window),
            LAMBDA r : [threw |-> r.threw, isArray |-> FALSE, items |-> <<r>>,
                        calls |-> <<Call(typeName, window)>>])
  ELSE With([i \in 1..Len(window.a) |-> parseType(m, typeName, window.a[i])],
            LAMBDA rs :
              IF \E i \in 1..Len(rs) : rs[i].threw
              THEN [threw |-> TRUE, isArray |-> TRUE, items |-> rs,
                    calls |-> <<Call(typeName, window.a[1])>>]
              ELSE [threw |-> FALSE, isArray |-> TRUE, items |-> rs,
                    calls |-> [i \in 1..Len(rs) |-> Call(typeName, window.a[i])]])

\* Line 175: if (resultType).  resultType is an object or an array, and
\* every object is truthy.
Truthy(resultType) == TRUE

NoResult == [threw |-> FALSE, isArray |-> FALSE, items |-> <<>>, calls |-> <<>>]

\* Lines 166-182: type.some(...) from candidate j on; calls are the
\* parseType calls of the candidates before j.
RECURSIVE someType(_, _, _, _, _)
someType(m, names, j, window, calls) ==
  IF j > Len(names)
  THEN [threw |-> FALSE, isParsed |-> FALSE, result |-> NoResult, calls |-> calls]
  ELSE With(resolveWith(m, names[j], window),
            LAMBDA resultType :
              IF resultType.threw
              THEN [threw |-> TRUE, isParsed |-> FALSE, result |-> NoResult,
                    calls |-> calls \o resultType.calls]
              ELSE IF Truthy(resultType)
              THEN [threw |-> FALSE, isParsed |-> TRUE, result |-> resultType,
                    calls |-> calls \o resultType.calls]
              ELSE someType(m, names, j + 1, window, calls \o resultType.calls))

\* Line 190: the 0-based positions of the outcomes that carry a check.
indices(items) == {i - 1 : i \in {j \in 1..Len(items) : items[j].check # "undefined"}}

\* indices[0]
firstIndex(ix) == CHOOSE i \in ix : \A j \in ix : i <= j

\* As tokenIndex, but reporting the offset inside the window.
tokenIndexInWindow(usageIndex, k) == k

\* Line 193: the index reported for a failing token of a window.
tokenIndex(usageIndex, k) == usageIndex + k

\* As countMismatch, with the comparison turned round.
countMismatchGreater(items, count) == Len(items) > count

\* Line 196: result.length < count
countMismatch(items, count) == Len(items) < count

\* As requiredFails, without the test of required.
requiredFailsAlways(result, required) ==
  /\ ~result.isArray
  /\ result.items[1].check # "undefined"

\* Line 201: result.check !== undefined && required.  An array has no check.
requiredFails(result, required) ==
  /\ ~result.isArray
  /\ result.items[1].check # "undefined"
  /\ required

\* Line 205: Array.isArray(result) ? result.map(e => e.value) : result.value
pushed(result) ==
  IF result.isArray THEN ArrV([i \in 1..Len(result.items) |-> result.items[i].value])
  ELSE result.items[1].value

\* As advance, stepping by one whatever the count.
advanceByOne(usageIndex, count) == usageIndex + 1

\* Line 206: count ? usageIndex += count : usageIndex++
advance(usageIndex, count) == IF count # 0 THEN usageIndex + count ELSE usageIndex + 1

SlotThrow(err, usageIndex, calls) ==
  [status |-> "throw", err |-> err, value |-> Undefined, cursor |-> usageIndex,
   calls |-> calls]

\* Lines 157-187: the outcomes of the slot's type, or of the first truthy
\* candidate of its list, on the window.
tryTypes(m, slot, window) ==
  IF ~slot.type.union
  THEN With(resolveWith(m, slot.type.names[1], window),
            LAMBDA r : [threw |-> r.threw, isParsed |-> TRUE, result |-> r,
                        calls |-> r.calls])
  ELSE someType(m, slot.type.names, 1, window, <<>>)

\* Lines 184-206: what the slot makes of the outcomes tried.
evaluate(slot, usageIndex, window, tried) ==
  IF tried.threw THEN SlotThrow(TypeError, usageIndex, tried.calls)
  ELSE IF ~tried.isParsed
  THEN SlotThrow(KitsuneParserArgumentError(window, usageIndex, slot.type, ""),
                 usageIndex, tried.calls)
  ELSE IF tried.result.isArray /\ indices(tried.result.items) # {}
  THEN With(firstIndex(indices(tried.result.items)),
            LAMBDA k :
              SlotThrow(KitsuneParserArgumentError(window.a[k + 1],
                                                   tokenIndex(usageIndex, k),
                                                   slot.type, ""),
                        usageIndex, tried.calls))
  ELSE IF tried.result.isArray /\ countMismatch(tried.result.items, slot.count)
  THEN SlotThrow(KitsuneParserArgumentError(window, usageIndex, slot.type, MsgCount),
                 usageIndex, tried.calls)
  ELSE IF requiredFails(tried.result, slot.required)
  THEN SlotThrow(KitsuneParserArgumentError(window, usageIndex, slot.type, ""),
                 usageIndex, tried.calls)
  ELSE [status |-> "ok", err |-> NoError, value |-> pushed(tried.result),
        cursor |-> usageIndex, calls |-> tried.calls]

\* Lines 153-207: the body of usage.forEach for one slot at cursor usageIndex.
slotBody(m, a, slot, usageIndex) ==
  With(argToParse(a, usageIndex, slot.count),
       LAMBDA window :
         With(tryTypes(m, slot, window),
              LAMBDA tried : evaluate(slot, usageIndex, window, tried)))

\* The outcome of a call of parse: returned (status "ok", ret the array
\* parsed) or thrown (status "throw", err); steps logs, for each slot the
\* loop entered, its cursor, its parseType calls and its outcome.
ParseOutcome(status, ret, err, steps) ==
  [status |-> status, ret |-> ret, err |-> err, steps |-> steps]

\* Lines 151-209: the loop from slot i on.
RECURSIVE forEachSlot(_, _, _, _, _, _, _)
forEachSlot(m, a, slots, i, usageIndex, parsed, steps) ==
  IF i > Len(slots) THEN ParseOutcome("ok", parsed, NoError, steps)
  ELSE With(slotBody(m, a, slots[i], usageIndex),
            LAMBDA step :
              IF step.status = "throw"
              THEN ParseOutcome("throw", <<>>, step.err, Append(steps, step))
              ELSE forEachSlot(m, a, slots, i + 1, advance(usageIndex, slots[i].count),
                               Append(parsed, step.value), Append(steps, step)))

\* parse(args, usage)
parse(m, a, u) ==
  IF ~u.isArray
  THEN ParseOutcome("throw", <<>>, KitsuneParserMessageError(MsgNotArray), <<>>)
  ELSE With(requiredArray(a),
            LAMBDA ra :
              With(findLastIndex(ra),
                   LAMBDA pos :
                     IF len(ra) > 1
                     THEN ParseOutcome("throw", <<>>,
                                       KitsuneParserArgumentError(Undefined, pos, NoTypeSpec,
                                                                  MsgOnlyOne),
                                       <<>>)
                     ELSE IF pos < Len(ra) - 1 /\ pos # -1
                     THEN ParseOutcome("throw", <<>>,
                                       KitsuneParserArgumentError(Undefined, pos, NoTypeSpec,
                                                                  MsgAtEnd),
                                       <<>>)
                     ELSE forEachSlot(m, a, u.slots, 1, 0, <<>>, <<>>)))

(***************************************************************************)
(* The inputs of the model.                                                *)
(***************************************************************************)
SeqsUpTo(S, n) == UNION {[1..k -> S] : k \in 0..n}

\* The tokens: the strings 'a' and '4.5'.
Tokens == {StrV(<<"a">>), StrV(<<"4", ".", "5">>)}

ArgLists == SeqsUpTo(Tokens, MaxArgs)

\* count 0 stands for a slot without count (count is tested for truthiness).
Counts == 0..MaxCount

SingleTypes == {Single("string"), Single("number")}

AllTypes ==
  SingleTypes \cup {Single("word"), Union(<<"number", "string">>), Union(<<>>)}

SlotsOf(typeSpecs) == [type : typeSpecs, required : BOOLEAN, count : Counts]

NotAnArray == [isArray |-> FALSE, slots |-> <<>>]

UsagesOf(typeSpecs) ==
  {[isArray |-> TRUE, slots |-> ss] : ss \in SeqsUpTo(SlotsOf(typeSpecs), MaxSlots)}
    \cup {NotAnArray}

CheckFns == {"isString", "isNumber"}
ExecFns == {"String", "parseInt"}

(***************************************************************************)
(* The state machine: out is the last call and its outcome.                *)
(***************************************************************************)
NoCall ==
  [op |-> "none", name |-> "", status |-> "ok", found |-> NoType, ret |-> <<>>,
   err |-> NoError, steps |-> <<>>]

\* addType({name, info, exec, check})
AddType(name, check, exec) ==
  /\ types' = addType(types, name, check, exec)
  /\ out' = [NoCall EXCEPT !.op = "addType", !.name = name,
               !.status = IF addTypeRejects(name, check, exec) THEN "throw" ELSE "ok",
               !.err = IF addTypeRejects(name, check, exec)
                       THEN KitsuneParserMessageError(
                              "Cannot add type. No name, execution or checker.")
                       ELSE NoError]
  /\ UNCHANGED <<args, usage>>

\* findType(type)
FindType(name) ==
  /\ out' = [NoCall EXCEPT !.op = "findType", !.name = name,
               !.found = findType(types, name)]
  /\ UNCHANGED <<types, args, usage>>

\* removeType(type)
RemoveType(name) ==
  /\ types' = removeType(types, name)
  /\ out' = [NoCall EXCEPT !.op = "removeType", !.name = name]
  /\ UNCHANGED <<args, usage>>

\* parse(args, usage)
Parse ==
  /\ out' = With(parse(types, args, usage),
                 LAMBDA r : [NoCall EXCEPT !.op = "parse", !.status = r.status,
                                           !.ret = r.ret, !.err = r.err,
                                           !.steps = r.steps])
  /\ UNCHANGED <<types, args, usage>>

\* The registry alone: every registration, lookup and removal.
InitRegistry ==
  /\ types = BuiltinTypes
  /\ args = <<>>
  /\ usage = [isArray |-> TRUE, slots |-> <<>>]
  /\ out = NoCall

NextRegistry ==
  \/ \E name \in Names \cup {""}, check \in CheckFns \cup {""}, exec \in ExecFns \cup {""} :
       AddType(name, check, exec)
  \/ \E name \in Names : FindType(name)
  \/ \E name \in Names : RemoveType(name)

SpecRegistry == InitRegistry /\ [][NextRegistry]_vars

\* parse over schemas of single-type slots of the built-in types; the type
\* 'number' may be registered again, with the check and exec of 'string'.
Init ==
  /\ types = BuiltinTypes
  /\ args \in ArgLists
  /\ usage \in UsagesOf(SingleTypes)
  /\ out = NoCall

Next ==
  \/ Parse
  \/ AddType("number", "isString", "String")

Spec == Init /\ [][Next]_vars

\* parse over every kind of slot: single types, the type 'word' that is not
\* registered at first, unions.
InitAny ==
  /\ types = BuiltinTypes
  /\ args \in ArgLists
  /\ usage \in UsagesOf(AllTypes)
  /\ out = NoCall

NextAny ==
  \/ Parse
  \/ \E name \in {"word", "number"} : AddType(name, "isString", "String")
  \/ RemoveType("word")

SpecAny == InitAny /\ [][NextAny]_vars

(***************************************************************************)
(* Vocabulary of the properties.                                           *)
(***************************************************************************)
Slots == usage.slots

\* The number of tokens a slot consumes.
Width(slot) == IF slot.count # 0 THEN slot.count ELSE 1

\* The cursor of slot i: the sum of the widths of the slots before it.
RECURSIVE CursorOf(_, _)
CursorOf(slots, i) == IF i <= 1 THEN 0 ELSE CursorOf(slots, i - 1) + Width(slots[i - 1])

Registered(name) == name \in DOMAIN types

\* The check and the exec of a registered type, applied to a token.
Accepts(name, token) == ApplyCheck(types[name].check, token)
Coerce(name, token) == ApplyExec(types[name].exec, token)

\* A call of parse with a schema that is an array has returned or thrown.
Parsed == out.op = "parse" /\ usage.isArray

\* The loop entered slot i: every slot before it resolved.
Reached(i) == i <= Len(out.steps)

SingleRegistered(slot) == ~slot.type.union /\ Registered(slot.type.names[1])

\* The tokens of args from position c (0-based) up to, not including, c + n.
WindowAt(c, n) == Slice(args, c, c + n)

(***************************************************************************)
(* C6.  For a schema of required single-type slots with registered types,  *)
(* when every slot's window lies inside the tokens and every token of it   *)
(* passes the slot's check, parse returns one entry per slot in schema     *)
(* order: exec of the token at the slot's cursor for a slot without count, *)
(* the list of the exec results of its count tokens for a slot with count; *)
(* the cursor of a slot is the sum of the widths of the slots before it.   *)
(***************************************************************************)
SlotSatisfied(i) ==
  LET slot == Slots[i]
      c == CursorOf(Slots, i)
  IN /\ SingleRegistered(slot)
     /\ slot.required
     /\ c + Width(slot) <= Len(args)
     /\ \A k \in 1..Width(slot) : Accepts(slot.type.names[1], args[c + k])

ExpectedEntry(i) ==
  LET slot == Slots[i]
      c == CursorOf(Slots, i)
      name == slot.type.names[1]
  IN IF slot.count = 0 THEN Coerce(name, args[c + 1])
     ELSE ArrV([k \in 1..slot.count |-> Coerce(name, args[c + k])])

C6_OneEntryPerSlot ==
  (Parsed /\ \A i \in 1..Len(Slots) : SlotSatisfied(i))
    => /\ out.status = "ok"
       /\ Len(out.ret) = Len(Slots)
       /\ \A i \in 1..Len(Slots) : out.ret[i] = ExpectedEntry(i)

\* A group of two numbers followed by a string, all satisfied.
C6_Witness ==
  /\ Parsed
  /\ Len(Slots) = 2
  /\ \A i \in 1..Len(Slots) : SlotSatisfied(i)
  /\ Slots[1].count = 2
  /\ Slots[1].type = Single("number")
  /\ Slots[2].count = 0
  /\ out.status = "ok"
  /\ out.ret[2] = StrV(<<"a">>)

(***************************************************************************)
(* C7.  For a single-type slot with count n at cursor c, entered by the    *)
(* loop, when fewer than n tokens remain from c (zero included) and every  *)
(* remaining token passes the check, parse throws the argument error with  *)
(* the count message, index c and the slot's type, and returns nothing.    *)
(***************************************************************************)
ShortWindow(i) ==
  LET slot == Slots[i]
      c == CursorOf(Slots, i)
      window == WindowAt(c, slot.count)
  IN /\ Reached(i)
     /\ SingleRegistered(slot)
     /\ slot.count > 0
     /\ Len(window) < slot.count
     /\ \A k \in 1..Len(window) : Accepts(slot.type.names[1], window[k])

C7_CountMismatch ==
  Parsed => \A i \in 1..Len(Slots) :
    ShortWindow(i) =>
      /\ out.status = "throw"
      /\ out.err.class = "KitsuneParserArgumentError"
      /\ out.err.message = MsgCount
      /\ out.err.index = CursorOf(Slots, i)
      /\ out.err.type = Slots[i].type
      /\ out.ret = <<>>

\* The second slot wants two tokens at a cursor past 0 and finds one.
C7_Witness ==
  /\ Parsed
  /\ Len(Slots) = 2
  /\ ShortWindow(2)
  /\ Len(WindowAt(CursorOf(Slots, 2), Slots[2].count)) = 1
  /\ out.err.message = MsgCount

(***************************************************************************)
(* C10.  For a single-type slot with count at cursor c, entered by the     *)
(* loop, whose window holds a token failing the check, parse throws the    *)
(* argument error citing the first failing token and its index c + k in    *)
(* the whole token stream (k its offset in the window), before any count   *)
(* mismatch, whatever the required flag, and returns nothing.              *)
(***************************************************************************)
Failing(i) ==
  LET slot == Slots[i]
      window == WindowAt(CursorOf(Slots, i), slot.count)
  IN {k \in 0..(Len(window) - 1) : ~Accepts(slot.type.names[1], window[k + 1])}

FailingWindow(i) ==
  /\ Reached(i)
  /\ SingleRegistered(Slots[i])
  /\ Slots[i].count > 0
  /\ Failing(i) # {}

C10_FirstFailingToken ==
  Parsed => \A i \in 1..Len(Slots) :
    FailingWindow(i) =>
      LET c == CursorOf(Slots, i)
          k == CHOOSE x \in Failing(i) : \A y \in Failing(i) : x <= y
      IN /\ out.status = "throw"
         /\ out.err = KitsuneParserArgumentError(args[c + k + 1], c + k, Slots[i].type, "")
         /\ out.ret = <<>>

\* An optional group at a cursor past 0, short of tokens, whose token fails.
C10_Witness ==
  /\ Parsed
  /\ Len(Slots) = 2
  /\ FailingWindow(2)
  /\ ~Slots[2].required
  /\ CursorOf(Slots, 2) > 0
  /\ Len(WindowAt(CursorOf(Slots, 2), Slots[2].count)) < Slots[2].count
  /\ out.status = "throw"

(***************************************************************************)
(* C5.  The schema ends with an optional slot without count, entered by    *)
(* the loop, whose token is absent or fails the check of the slot's type   *)
(* (for a union: of the first listed type).                                *)
(***************************************************************************)
FirstType(slot) == slot.type.names[1]

OptionalLastUnmet ==
  LET n == Len(Slots) IN
  /\ n >= 1
  /\ ~Slots[n].required
  /\ Slots[n].count = 0
  /\ Reached(n)
  /\ Slots[n].type.names # <<>>
  /\ Registered(FirstType(Slots[n]))
  /\ ~Accepts(FirstType(Slots[n]), At(args, CursorOf(Slots, n)))

C1_RemovedIsAbsent ==
  out.op = "removeType" => findType(types, out.name) = NoType

(***************************************************************************)
(* C2.  parse throws the 'only one' error when the schema has two or more  *)
(* slots with required false, and the 'at the end' error when it has       *)
(* exactly one and that slot is not the last; in both cases before any     *)
(* slot is resolved, whatever the tokens.                                  *)
(***************************************************************************)
OptionalSlots == {i \in 1..Len(Slots) : ~Slots[i].required}

C2_SchemaRejected ==
  Parsed =>
    /\ Cardinality(OptionalSlots) >= 2 =>
         /\ out.status = "throw"
         /\ out.err.class = "KitsuneParserArgumentError"
         /\ out.err.message = MsgOnlyOne
         /\ out.steps = <<>>
    /\ (Cardinality(OptionalSlots) = 1 /\ Len(Slots) \notin OptionalSlots) =>
         /\ out.status = "throw"
         /\ out.err.class = "KitsuneParserArgumentError"
         /\ out.err.message = MsgAtEnd
         /\ out.steps = <<>>

(***************************************************************************)
(* C3.  For a union slot without count whose candidates are registered,    *)
(* the slot's value is the exec result of the first candidate, in list     *)
(* order, whose check accepts the token at the cursor; the candidates      *)
(* after it are not tried, and a candidate that rejects does not win.      *)
(***************************************************************************)
AllRegistered(slot) == \A j \in 1..Len(slot.type.names) : Registered(slot.type.names[j])

Accepting(slot, token) == {j \in 1..Len(slot.type.names) : Accepts(slot.type.names[j], token)}

Winner(slot, token) ==
  CHOOSE j \in Accepting(slot, token) : \A x \in Accepting(slot, token) : j <= x

C3_FirstMatchWins ==
  Parsed => \A i \in 1..Len(Slots) :
    LET slot == Slots[i]
        token == At(args, CursorOf(Slots, i))
    IN (/\ Reached(i)
        /\ slot.type.union
        /\ slot.count = 0
        /\ AllRegistered(slot)
        /\ Accepting(slot, token) # {})
       => LET w == Winner(slot, token) IN
          /\ out.steps[i].status = "ok"
          /\ out.steps[i].value = Coerce(slot.type.names[w], token)
          /\ out.steps[i].calls = [j \in 1..w |-> Call(slot.type.names[j], token)]

(***************************************************************************)
(* C4.  For a union slot with a non-empty list of registered candidates,   *)
(* none of which accepts the slot's token, parse throws the argument       *)
(* error carrying the slot's window, the cursor and the whole type list;   *)
(* it does not return a result.                                            *)
(***************************************************************************)
C4_NoMatchingType ==
  Parsed => \A i \in 1..Len(Slots) :
    LET slot == Slots[i]
        c == CursorOf(Slots, i)
    IN (/\ Reached(i)
        /\ slot.type.union
        /\ slot.type.names # <<>>
        /\ slot.count = 0
        /\ AllRegistered(slot)
        /\ Accepting(slot, At(args, c)) = {})
       => /\ out.status = "throw"
          /\ out.err = KitsuneParserArgumentError(At(args, c), c, slot.type, "")

(***************************************************************************)
(* C8.  A call of parse returns a result or throws one of the parser's     *)
(* own errors; no other failure escapes, whatever the registry holds.      *)
(***************************************************************************)
C8_OnlyParserErrors ==
  out.op = "parse" =>
    \/ out.status = "ok"
    \/ out.err.class \in {"KitsuneParserArgumentError", "KitsuneParserMessageError"}

(***************************************************************************)
(* C9.  For a union slot with count whose window is full, each token is    *)
(* accepted if some candidate accepts it: when every token of the window   *)
(* has an accepting candidate the slot resolves, to the list of the exec   *)
(* results of each token's first accepting candidate.                      *)
(***************************************************************************)
C9_PerTokenUnion ==
  Parsed => \A i \in 1..Len(Slots) :
    LET slot == Slots[i]
        window == WindowAt(CursorOf(Slots, i), slot.count)
    IN (/\ Reached(i)
        /\ slot.type.union
        /\ slot.count > 0
        /\ AllRegistered(slot)
        /\ Len(window) = slot.count
        /\ \A k \in 1..Len(window) : Accepting(slot, window[k]) # {})
       => /\ out.steps[i].status = "ok"
          /\ out.steps[i].value =
               ArrV([k \in 1..Len(window) |->
                       Coerce(slot.type.names[Winner(slot, window[k])], window[k])])

====
